---- MODULE Spec2Model ----
(***************************************************************************)
(* Model of libbfddp's bfddp.c: the connection context, its inbound byte   *)
(* buffer with the cursors position / remaining / packet, the read pump    *)
(* (bfddp_read over bfddp_buf_read), the frame extractor                   *)
(* (bfddp_next_message) and the compactor (bfddp_buf_pulldown).            *)
(*                                                                         *)
(* Byte arrays (a buffer's storage, the bytes in flight on the socket) are *)
(* kept run-length encoded: a sequence of runs [v |-> byte, n |-> count],  *)
(* no two neighbours with the same v, so that equal arrays are equal       *)
(* values.  A cell that was never written since malloc holds the value     *)
(* Indeterminate; reading it, or anything past the block, yields any       *)
(* value.                                                                  *)
(***************************************************************************)
EXTENDS Integers, Sequences, FiniteSets, TLC

\* ------------------------------------------------------------------ bounds
\* Capacities the caller asks bfddp_new for.
ReqLens == {100, 4096, 4097}
\* Declared total lengths of the frames the peer sends.
FrameLens == {30, 4066}
\* Byte counts one socket read may deliver (besides "all that is there").
ReadSizes == {10, 20}
\* Largest capacity of the buffers SpecBuf starts the compactor from.
MaxTotal == 3
\* Frames the peer sends over the whole run.
MaxFrames == 2
\* Socket reads over the whole run that deliver less than is in flight.
MaxShortReads == 3
\* Sockets the library may hold open at once in SpecConn.
MaxSockets == 2
\* Capacity of the buffers of SpecPump beyond sizeof(struct bfddp_message).
MaxSlack == 1
\* Bytes in flight at once in SpecPump.
MaxInFlight == 1

\* ------------------------------------------------------- program constants
\* Floor of both buffer capacities (bfddp_new).
MinBufLen == 4096
\* sizeof(struct bfddp_message), declared in bfddp.h.
SizeofMessage == 8
\* Width in bytes of the length field read as msg->length.
LengthBytes == 2

Min(a, b) == IF a < b THEN a ELSE b
Max(a, b) == IF a > b THEN a ELSE b

\* errno values; "0" is the cleared error state.
NoErr == "0"
Transient == {"EINTR", "EAGAIN", "EWOULDBLOCK"}

\* -------------------------------------------------------------- byte arrays
\* The value standing for a cell whose content is indeterminate.
Indeterminate == -1

\* Number of cells of the array r.
RECURSIVE RLen(_)
RLen(r) == IF r = <<>> THEN 0 ELSE r[1].n + RLen(Tail(r))

\* The first k cells of r.
RECURSIVE RTake(_, _)
RTake(r, k) ==
    IF k <= 0 \/ r = <<>> THEN <<>>
    ELSE IF r[1].n <= k THEN <<r[1]>> \o RTake(Tail(r), k - r[1].n)
    ELSE <<[v |-> r[1].v, n |-> k]>>

\* r without its first k cells.
RECURSIVE RDrop(_, _)
RDrop(r, k) ==
    IF k <= 0 \/ r = <<>> THEN r
    ELSE IF r[1].n <= k THEN RDrop(Tail(r), k - r[1].n)
    ELSE <<[v |-> r[1].v, n |-> r[1].n - k]>> \o Tail(r)

\* a followed by b.
RCat(a, b) ==
    IF a = <<>> THEN b
    ELSE IF b = <<>> THEN a
    ELSE IF a[Len(a)].v = b[1].v
    THEN SubSeq(a, 1, Len(a) - 1)
         \o <<[v |-> b[1].v, n |-> a[Len(a)].n + b[1].n]>> \o Tail(b)
    ELSE a \o b

\* The cell at 0-based offset off of r; indeterminate past its end.
RECURSIVE Cell(_, _)
Cell(r, off) ==
    IF r = <<>> THEN Indeterminate
    ELSE IF off < r[1].n THEN r[1].v
    ELSE Cell(Tail(r), off - r[1].n)

\* The array holding the bytes of the sequence q.
RECURSIVE Pack(_)
Pack(q) == IF q = <<>> THEN <<>>
           ELSE RCat(<<[v |-> Head(q), n |-> 1]>>, Pack(Tail(q)))

\* A block of len cells fresh from malloc.
Malloc(len) == IF len = 0 THEN <<>> ELSE <<[v |-> Indeterminate, n |-> len]>>

\* memmove(block + 0, block + from, n).
Memmove(cells, from, n) == RCat(RTake(RDrop(cells, from), n), RDrop(cells, n))

\* data stored at 0-based offset off of the block (what read(2) does to the
\* memory it is handed).
Store(cells, off, data) ==
    RCat(RCat(RTake(cells, off), data), RDrop(cells, off + RLen(data)))

\* ------------------------------------------------------------- wire format
\* Value of the bytes of a frame after its length field.
PayloadByte == 170

\* The frame the peer sends for declared total length L: the length field
\* first (low byte, high byte), then the rest of the header and the payload.
Frame(L) == RCat(Pack(<<L % 256, L \div 256>>),
                 IF L > LengthBytes THEN <<[v |-> PayloadByte, n |-> L - LengthBytes]>>
                 ELSE <<>>)

\* ------------------------------------------------------------ struct bfddp_buf
\* A zeroed struct bfddp_buf (calloc): no storage, all cursors 0.
ZeroBuf == [buf |-> <<>>, total |-> 0, position |-> 0,
            remaining |-> 0, packet |-> 0]

BFDDP_BUF_FULL(buf) == buf.position = buf.total

\* bfddp_buf_pulldown that moves the cursors and not the bytes.
bfddp_buf_pulldown_no_move(buf) ==
    IF buf.position = 0 THEN buf
    ELSE LET movebytes == buf.position - buf.packet
         IN [buf EXCEPT !.remaining = buf.total - movebytes,
                        !.position = movebytes,
                        !.packet = 0]

\* bfddp_buf_pulldown that leaves packet where it was.
bfddp_buf_pulldown_keeps_packet(buf) ==
    IF buf.position = 0 THEN buf
    ELSE LET movebytes == buf.position - buf.packet
         IN [buf EXCEPT !.buf = Memmove(buf.buf, buf.packet, movebytes),
                        !.remaining = buf.total - movebytes,
                        !.position = movebytes]

bfddp_buf_pulldown(buf) ==
    IF buf.position = 0 THEN buf
    ELSE LET movebytes == buf.position - buf.packet
         IN [buf EXCEPT !.buf = Memmove(buf.buf, buf.packet, movebytes),
                        !.remaining = buf.total - movebytes,
                        !.position = movebytes,
                        !.packet = 0]

\* ------------------------------------------------------------------ state
VARIABLES
    heap,        \* live allocations: subset of {"bctx", "inbuf", "outbuf"}
    bctx,        \* struct bfddp_ctx (meaningful while "bctx" is in heap)
    fds,         \* socket descriptors created by the library and still open
    wire,        \* bytes sent by the peer, not yet read from bctx.sock
    peerClosed,  \* the peer has closed its end of the connection
    sent,        \* frames the peer has sent so far
    shorts,      \* socket reads so far that delivered less than was in flight
    errno,       \* the caller-visible error state
    pc,          \* "idle" between calls, "read" inside bfddp_read's loop,
                 \* "close" inside sock_close's loop
    cl,          \* sock_close's frame in the bfddp_connect call in progress or
                 \* last made
    total,       \* bfddp_read's local `total`
    call,        \* the library call the caller made last, and what it returned
    g            \* bookkeeping about the bfddp_read call in progress or just made

vars == <<heap, bctx, fds, wire, peerClosed, sent, shorts, errno,
          pc, cl, total, call, g>>

\* the inbound buffer
inbuf == bctx.inbuf

\* bfddp_next_message's NULL, and the message it returns otherwise: the
\* offset in the block the returned pointer refers to and the msg->length
\* found there.
NullMsg == [null |-> TRUE, off |-> 0, length |-> 0]

\* A call of op returning the integer ret (for bfddp_new: 1 a context, 0
\* NULL) or, for bfddp_next_message, msg.  args are the integers the call
\* started from: the requested capacities for bfddp_new, the cursors packet
\* and position on entry for bfddp_read_finish; for bfddp_next_message they
\* are the offset at which it read msg->length and the value it found.  rep
\* tells whether the call made before it was of the same operation.
Call(op, args, r, m) ==
    [op |-> op, args |-> args, rep |-> (call.op = op), ret |-> r, msg |-> m]

\* Bookkeeping of one bfddp_read call: the buffer on entry and as the entry
\* guard left it, the number of socket reads issued, the bytes they delivered, the outcome
\* of the first and of the last one ("data", "eof" or the errno of a failed
\* read), and whether one was issued with no free byte in the buffer.
NoCall == [entry |-> ZeroBuf, guard |-> ZeroBuf, nreads |-> 0, data |-> <<>>, first |-> "none",
           onfull |-> FALSE, last |-> "none"]

\* sock_close's frame: the descriptor it closes, errnoc, the step of
\* bfddp_connect that called it, whether a close call of it was interrupted
\* and what its last close call did.
NoClose == [sock |-> 0, errnoc |-> NoErr, from |-> "none", intr |-> FALSE,
            last |-> "none"]

Init ==
    /\ heap = {}
    /\ bctx = [sock |-> 0, connecting |-> FALSE, inbuf |-> ZeroBuf, outbuf |-> ZeroBuf]
    /\ fds = {}
    /\ wire = <<>>
    /\ peerClosed = FALSE
    /\ sent = 0
    /\ shorts = 0
    /\ errno = NoErr
    /\ pc = "idle"
    /\ cl = NoClose
    /\ total = 0
    /\ call = [op |-> "none", args |-> <<>>, rep |-> FALSE, ret |-> 0, msg |-> NullMsg]
    /\ g = NoCall

\* ------------------------------------------------------------- bfddp_new
\* bfddp_new whose failure path frees the context only.
bfddp_new_result_leaks(inbuflen, outbuflen, fail) ==
    IF fail = "bctx" THEN [ret |-> 0, heap |-> {}, inbuf |-> ZeroBuf, outbuf |-> ZeroBuf]
    ELSE LET inlen  == IF inbuflen <= MinBufLen THEN MinBufLen ELSE inbuflen
             outlen == IF outbuflen <= MinBufLen THEN MinBufLen ELSE outbuflen
             got    == IF fail = "inbuf" THEN {"bctx"}
                       ELSE IF fail = "outbuf" THEN {"bctx", "inbuf"}
                       ELSE {"bctx", "inbuf", "outbuf"}
         IN IF fail # "none"
            THEN [ret |-> 0, heap |-> got \ {"bctx"},
                  inbuf |-> ZeroBuf, outbuf |-> ZeroBuf]
            ELSE [ret |-> 1, heap |-> got,
                  inbuf |-> [ZeroBuf EXCEPT !.buf = Malloc(inlen),
                                            !.total = inlen, !.remaining = inlen],
                  outbuf |-> [ZeroBuf EXCEPT !.buf = Malloc(outlen),
                                             !.total = outlen, !.remaining = outlen]]

\* fail names the allocation that fails: "none", "bctx", "inbuf" or "outbuf".
bfddp_new_result(inbuflen, outbuflen, fail) ==
    IF fail = "bctx" THEN [ret |-> 0, heap |-> {}, inbuf |-> ZeroBuf, outbuf |-> ZeroBuf]
    ELSE LET inlen  == IF inbuflen <= MinBufLen THEN MinBufLen ELSE inbuflen
             outlen == IF outbuflen <= MinBufLen THEN MinBufLen ELSE outbuflen
             got    == IF fail = "inbuf" THEN {"bctx"}
                       ELSE IF fail = "outbuf" THEN {"bctx", "inbuf"}
                       ELSE {"bctx", "inbuf", "outbuf"}
         IN IF fail # "none"
            THEN \* free_and_fail: free(inbuf.buf), free(outbuf.buf), free(bctx)
                 [ret |-> 0, heap |-> ((got \ {"inbuf"}) \ {"outbuf"}) \ {"bctx"},
                  inbuf |-> ZeroBuf, outbuf |-> ZeroBuf]
            ELSE [ret |-> 1, heap |-> got,
                  inbuf |-> [ZeroBuf EXCEPT !.buf = Malloc(inlen),
                                            !.total = inlen, !.remaining = inlen],
                  outbuf |-> [ZeroBuf EXCEPT !.buf = Malloc(outlen),
                                             !.total = outlen, !.remaining = outlen]]

bfddp_new(inbuflen, outbuflen, fail) ==
    /\ pc = "idle"
    /\ "bctx" \notin heap
    /\ LET r == bfddp_new_result(inbuflen, outbuflen, fail)
       IN /\ heap' = r.heap
          /\ call' = Call("new", <<inbuflen, outbuflen>>, r.ret, NullMsg)
          /\ bctx' = [sock |-> 0, connecting |-> FALSE,
                      inbuf |-> r.inbuf, outbuf |-> r.outbuf]
    /\ UNCHANGED <<fds, wire, peerClosed, sent, shorts, errno, pc, cl,
                   total, g>>

\* --------------------------------------------------------- bfddp_connect
\* What one close(2) call may do.
CloseResults == {"ok", "EINTR", "EIO"}

\* sock_close without `errno = errnoc`: the caller sees what close(2) left.
sock_close_iter_no_restore(c, res, open) ==
    LET c1 == [c EXCEPT !.last = res, !.intr = @ \/ res = "EINTR"]
    IN IF res = "ok"
       THEN [done |-> TRUE, fds |-> open \ {c.sock},
             errno |-> IF c.intr THEN "EINTR" ELSE c.errnoc, cl |-> c1]
       ELSE IF res # "EINTR"
       THEN [done |-> TRUE, fds |-> open \ {c.sock}, errno |-> res, cl |-> c1]
       ELSE [done |-> FALSE, fds |-> open, errno |-> res, cl |-> c1]

\* sock_close without the test of errno against EINTR: it tries again after
\* every failure.
sock_close_iter_retries_any(c, res, open) ==
    LET c1 == [c EXCEPT !.last = res, !.intr = @ \/ res = "EINTR"]
    IN IF res = "ok"
       THEN [done |-> TRUE, fds |-> open \ {c.sock}, errno |-> c.errnoc, cl |-> c1]
       ELSE [done |-> FALSE, fds |-> open, errno |-> res, cl |-> c1]

\* One iteration of sock_close's loop, c being its frame, res what close(2)
\* did and open the open descriptors: whether the loop is left, and the
\* descriptors, error state and frame after it (after the restore of errno
\* when it is left).  A close call that returns 0 or fails other than with
\* EINTR has released the descriptor.
sock_close_iter(c, res, open) ==
    LET c1 == [c EXCEPT !.last = res, !.intr = @ \/ res = "EINTR"]
    IN IF res = "ok"
       THEN [done |-> TRUE, fds |-> open \ {c.sock}, errno |-> c.errnoc, cl |-> c1]
       ELSE IF res # "EINTR"
       THEN [done |-> TRUE, fds |-> open \ {c.sock}, errno |-> c.errnoc, cl |-> c1]
       ELSE [done |-> FALSE, fds |-> open, errno |-> res, cl |-> c1]

\* The context holds an open socket.
Connected == "bctx" \in heap /\ bctx.sock \in fds

\* socket(2) returns the lowest descriptor not in use (0, 1 and 2 are the
\* standard streams).
LowestFree(open) ==
    CHOOSE n \in 3..(3 + Cardinality(open)) :
        n \notin open /\ \A m \in 3..(n - 1) : m \in open

\* Error state left by the step of bfddp_connect that fails.
StepErrno(step) ==
    IF step = "socket" THEN "EMFILE"
    ELSE IF step = "nonblock" THEN "EINVAL"
    ELSE IF step = "nodelay" THEN "ENOPROTOOPT"
    ELSE IF step = "connect" THEN "ECONNREFUSED"
    ELSE "EINPROGRESS"

\* bfddp_connect up to its return or its call of sock_close.  step names
\* what fails: "socket", "nonblock", "nodelay", "connect" (an error other
\* than EINPROGRESS), or nothing: "inprogress", "connected".
bfddp_connect(step) ==
    /\ pc = "idle"
    /\ "bctx" \in heap
    /\ g' = NoCall
    /\ IF step = "socket"
       THEN /\ errno' = StepErrno(step)
            /\ call' = Call("connect", <<>>, -1, NullMsg)
            /\ cl' = NoClose
            /\ UNCHANGED <<fds, bctx, wire, peerClosed, pc>>
       ELSE LET sock == LowestFree(fds)
            IN /\ fds' = fds \cup {sock}
               /\ IF step \in {"nonblock", "nodelay", "connect"}
                  THEN /\ errno' = StepErrno(step)
                       /\ cl' = [NoClose EXCEPT !.sock = sock, !.from = step,
                                                !.errnoc = StepErrno(step)]
                       /\ pc' = "close"
                       /\ call' = Call("connect", <<>>, 0, NullMsg)
                       /\ UNCHANGED <<bctx, wire, peerClosed>>
                  ELSE /\ errno' = IF step = "inprogress" THEN StepErrno(step) ELSE errno
                       /\ bctx' = [bctx EXCEPT !.sock = sock,
                                               !.connecting = (step = "inprogress")]
                       /\ call' = Call("connect", <<>>, 0, NullMsg)
                       /\ cl' = NoClose
                       /\ wire' = <<>>
                       /\ peerClosed' = FALSE
                       /\ UNCHANGED pc
    /\ UNCHANGED <<heap, sent, shorts, total>>

\* One close(2) call of sock_close and, when the loop is left, the return
\* of bfddp_connect with -1.
sock_close_call ==
    /\ pc = "close"
    /\ \E res \in CloseResults :
         LET it == sock_close_iter(cl, res, fds)
         IN /\ fds' = it.fds
            /\ errno' = it.errno
            /\ cl' = it.cl
            /\ pc' = IF it.done THEN "idle" ELSE "close"
            /\ call' = IF it.done THEN [call EXCEPT !.ret = -1] ELSE call
    /\ UNCHANGED <<heap, bctx, wire, peerClosed, sent, shorts, total, g>>

\* ------------------------------------------------------------------ peer

PeerSend(L) ==
    /\ Connected
    /\ ~peerClosed
    /\ sent < MaxFrames
    /\ wire' = wire \o Frame(L)
    /\ sent' = sent + 1
    /\ UNCHANGED <<heap, bctx, fds, peerClosed, shorts, errno, pc, cl,
                   total, call, g>>

PeerClose ==
    /\ Connected
    /\ ~peerClosed
    /\ peerClosed' = TRUE
    /\ UNCHANGED <<heap, bctx, fds, wire, sent, shorts, errno, pc, cl,
                   total, call, g>>

\* ------------------------------------------------------------- read pump
\* What one read(sock, ptr, count) can do: deliver the first n bytes in
\* flight, report end of stream once the peer has closed and nothing is in
\* flight, or fail (EAGAIN when nothing is there, EINTR or a hard error at
\* any time).  EWOULDBLOCK is the same value as EAGAIN.
SockRead(count) ==
    LET avail == Min(RLen(wire), count)
    IN {[kind |-> "data", data |-> RTake(wire, n), err |-> NoErr] :
            n \in {m \in (IF shorts < MaxShortReads THEN ReadSizes ELSE {}) \cup {avail} :
                      1 <= m /\ m <= avail}}
       \cup (IF (wire = <<>> /\ peerClosed) \/ count = 0
             THEN {[kind |-> "eof", data |-> <<>>, err |-> NoErr]} ELSE {})
       \cup (IF wire = <<>> /\ ~peerClosed /\ count > 0
             THEN {[kind |-> "fail", data |-> <<>>, err |-> "EAGAIN"]} ELSE {})
       \cup {[kind |-> "fail", data |-> <<>>, err |-> e] : e \in {"EINTR", "ECONNRESET"}}

\* How the bookkeeping names what a socket read did.
Outcome(o) == IF o.kind = "fail" THEN o.err ELSE o.kind

\* bfddp_buf_read that advances position and leaves remaining alone.
bfddp_buf_read_stale_remaining(buf, o, en) ==
    IF BFDDP_BUF_FULL(buf)
    THEN [buf |-> buf, rv |-> 0, errno |-> en, issued |-> FALSE]
    ELSE IF o.kind = "eof"
    THEN [buf |-> buf, rv |-> -1, errno |-> NoErr, issued |-> TRUE]
    ELSE IF o.kind = "fail"
    THEN [buf |-> buf, rv |-> IF o.err \in Transient THEN 0 ELSE -1,
          errno |-> o.err, issued |-> TRUE]
    ELSE LET rv == RLen(o.data)
         IN [buf |-> [buf EXCEPT !.buf = Store(buf.buf, buf.position, o.data),
                                 !.position = buf.position + rv],
             rv |-> rv, errno |-> en, issued |-> TRUE]

\* bfddp_buf_read that does not clear errno when the peer has closed.
bfddp_buf_read_keeps_errno(buf, o, en) ==
    IF BFDDP_BUF_FULL(buf)
    THEN [buf |-> buf, rv |-> 0, errno |-> en, issued |-> FALSE]
    ELSE IF o.kind = "eof"
    THEN [buf |-> buf, rv |-> -1, errno |-> en, issued |-> TRUE]
    ELSE IF o.kind = "fail"
    THEN [buf |-> buf, rv |-> IF o.err \in Transient THEN 0 ELSE -1,
          errno |-> o.err, issued |-> TRUE]
    ELSE LET rv == RLen(o.data)
         IN [buf |-> [buf EXCEPT !.buf = Store(buf.buf, buf.position, o.data),
                                 !.position = buf.position + rv,
                                 !.remaining = buf.remaining - rv],
             rv |-> rv, errno |-> en, issued |-> TRUE]

\* bfddp_buf_read without the full-buffer check.
bfddp_buf_read_no_full_check(buf, o, en) ==
    IF o.kind = "eof"
    THEN [buf |-> buf, rv |-> -1, errno |-> NoErr, issued |-> TRUE]
    ELSE IF o.kind = "fail"
    THEN [buf |-> buf, rv |-> IF o.err \in Transient THEN 0 ELSE -1,
          errno |-> o.err, issued |-> TRUE]
    ELSE LET rv == RLen(o.data)
         IN [buf |-> [buf EXCEPT !.buf = Store(buf.buf, buf.position, o.data),
                                 !.position = buf.position + rv,
                                 !.remaining = buf.remaining - rv],
             rv |-> rv, errno |-> en, issued |-> TRUE]

\* bfddp_buf_read(sock, buf) when the read, if one is issued, does o; en is
\* the error state on entry.  issued tells whether read(2) was called.
bfddp_buf_read(buf, o, en) ==
    IF BFDDP_BUF_FULL(buf)
    THEN [buf |-> buf, rv |-> 0, errno |-> en, issued |-> FALSE]
    ELSE IF o.kind = "eof"
    THEN [buf |-> buf, rv |-> -1, errno |-> NoErr, issued |-> TRUE]
    ELSE IF o.kind = "fail"
    THEN [buf |-> buf, rv |-> IF o.err \in Transient THEN 0 ELSE -1,
          errno |-> o.err, issued |-> TRUE]
    ELSE LET rv == RLen(o.data)
         IN [buf |-> [buf EXCEPT !.buf = Store(buf.buf, buf.position, o.data),
                                 !.position = buf.position + rv,
                                 !.remaining = buf.remaining - rv],
             rv |-> rv, errno |-> en, issued |-> TRUE]

\* bfddp_read's iteration with `total = rv` for `total += rv`.
bfddp_read_iter_overwrite(tot, r) ==
    IF r.rv = -1
    THEN [done |-> TRUE, ret |-> IF tot = 0 THEN -1 ELSE tot, total |-> tot]
    ELSE LET t == r.rv
         IN IF BFDDP_BUF_FULL(r.buf) THEN [done |-> TRUE, ret |-> t, total |-> t]
            ELSE IF r.rv = 0 THEN [done |-> TRUE, ret |-> t, total |-> t]
            ELSE [done |-> ~(r.rv > 0), ret |-> t, total |-> t]

\* bfddp_read's iteration that reports every failed read as a failure.
bfddp_read_iter_always_fails(tot, r) ==
    IF r.rv = -1
    THEN [done |-> TRUE, ret |-> -1, total |-> tot]
    ELSE LET t == tot + r.rv
         IN IF BFDDP_BUF_FULL(r.buf) THEN [done |-> TRUE, ret |-> t, total |-> t]
            ELSE IF r.rv = 0 THEN [done |-> TRUE, ret |-> t, total |-> t]
            ELSE [done |-> ~(r.rv > 0), ret |-> t, total |-> t]

\* bfddp_read's iteration without `if (rv == 0) return total` and with
\* `while (rv >= 0)`: an interrupted read is tried again.
bfddp_read_iter_retries(tot, r) ==
    IF r.rv = -1
    THEN [done |-> TRUE, ret |-> IF tot = 0 THEN -1 ELSE tot, total |-> tot]
    ELSE LET t == tot + r.rv
         IN IF BFDDP_BUF_FULL(r.buf) THEN [done |-> TRUE, ret |-> t, total |-> t]
            ELSE [done |-> ~(r.rv >= 0), ret |-> t, total |-> t]

\* The rest of one iteration of bfddp_read's loop, tot being `total` before
\* it and r what bfddp_buf_read gave: whether the call returns, and what.
bfddp_read_iter(tot, r) ==
    IF r.rv = -1
    THEN [done |-> TRUE, ret |-> IF tot = 0 THEN -1 ELSE tot, total |-> tot]
    ELSE LET t == tot + r.rv
         IN IF BFDDP_BUF_FULL(r.buf) THEN [done |-> TRUE, ret |-> t, total |-> t]
            ELSE IF r.rv = 0 THEN [done |-> TRUE, ret |-> t, total |-> t]
            ELSE [done |-> ~(r.rv > 0), ret |-> t, total |-> t]

\* The entry guard with < for <=: a buffer with just one header of free
\* space is left as it is.
bfddp_read_guard_strict(buf) ==
    IF buf.remaining < SizeofMessage THEN bfddp_buf_pulldown(buf) ELSE buf

\* The entry guard of bfddp_read.
bfddp_read_guard(buf) ==
    IF buf.remaining <= SizeofMessage THEN bfddp_buf_pulldown(buf) ELSE buf

\* bfddp_read, up to its loop.
bfddp_read_enter ==
    /\ pc = "idle"
    /\ Connected
    /\ LET b == bfddp_read_guard(inbuf)
       IN /\ bctx' = [bctx EXCEPT !.inbuf = b]
          /\ g' = [NoCall EXCEPT !.entry = inbuf, !.guard = b]
    /\ total' = 0
    /\ pc' = "read"
    /\ call' = Call("read", <<>>, 0, NullMsg)
    /\ UNCHANGED <<heap, fds, wire, peerClosed, sent, shorts, errno, cl>>

\* One iteration of bfddp_read's loop.
bfddp_read_loop ==
    /\ pc = "read"
    /\ \E o \in SockRead(inbuf.remaining) :
         LET r  == bfddp_buf_read(inbuf, o, errno)
             it == bfddp_read_iter(total, r)
         IN /\ bctx' = [bctx EXCEPT !.inbuf = r.buf]
            /\ errno' = r.errno
            /\ wire' = IF r.issued THEN RDrop(wire, RLen(o.data)) ELSE wire
            /\ shorts' = IF r.issued /\ o.kind = "data"
                            /\ RLen(o.data) < Min(RLen(wire), inbuf.remaining)
                         THEN shorts + 1 ELSE shorts
            /\ total' = IF it.done THEN 0 ELSE it.total
            /\ pc' = IF it.done THEN "idle" ELSE "read"
            /\ call' = IF it.done THEN [call EXCEPT !.ret = it.ret] ELSE call
            /\ g' = IF r.issued
                    THEN [g EXCEPT !.nreads = @ + 1,
                                   !.data = RCat(@, o.data),
                                   !.first = IF g.nreads = 0 THEN Outcome(o) ELSE @,
                                   !.onfull = @ \/ BFDDP_BUF_FULL(inbuf),
                                   !.last = Outcome(o)]
                    ELSE g
    /\ UNCHANGED <<heap, fds, peerClosed, sent, cl>>

\* ------------------------------------------------------- frame extractor
\* Values an indeterminate length field may turn out to hold.
AnyLength == {0, 30, 65535}

\* msg->length for a struct bfddp_message placed at offset off of the block:
\* the value of its bytes when they were written.  Bytes of the block that
\* nothing has written hold any value, the same one for a call that follows
\* another bfddp_next_message at the same offset; bytes past the end of the
\* block are not the buffer's and hold any value at every call.
LengthAt(buf, off) ==
    LET lo == Cell(buf.buf, off)
        hi == Cell(buf.buf, off + 1)
    IN IF off + LengthBytes > buf.total THEN AnyLength
       ELSE IF lo # Indeterminate /\ hi # Indeterminate THEN {lo + 256 * hi}
       ELSE IF call.op = "next_message" /\ call.args # <<>> /\ call.args[1] = off
       THEN {call.args[2]}
       ELSE AnyLength

\* bfddp_next_message that steps over the message it returns.
bfddp_next_message_advances ==
    /\ pc = "idle"
    /\ "bctx" \in heap
    /\ \E length \in LengthAt(inbuf, inbuf.position) :
         IF inbuf.packet >= inbuf.position \/ length > inbuf.position
         THEN /\ call' = Call("next_message", <<>>, 0, NullMsg)
              /\ UNCHANGED bctx
         ELSE /\ call' = Call("next_message", <<inbuf.position, length>>, 0,
                              [null |-> FALSE, off |-> inbuf.position, length |-> length])
              /\ bctx' = [bctx EXCEPT !.inbuf.packet = Min(@ + length, inbuf.position)]
    /\ g' = NoCall
    /\ UNCHANGED <<heap, fds, wire, peerClosed, sent, shorts,
                   errno, pc, cl, total>>

\* What bfddp_next_message may do on buf: read, the offset at which it read
\* msg->length and the value it found (<<>> when it returned before reading),
\* and msg, what it returns.
bfddp_next_message_on(buf) ==
    IF buf.packet >= buf.position THEN {[read |-> <<>>, msg |-> NullMsg]}
    ELSE {[read |-> <<buf.position, length>>,
           msg |-> IF length > buf.position THEN NullMsg
                   ELSE [null |-> FALSE, off |-> buf.position, length |-> length]] :
             length \in LengthAt(buf, buf.position)}

bfddp_next_message ==
    /\ pc = "idle"
    /\ "bctx" \in heap
    /\ \E r \in bfddp_next_message_on(inbuf) :
         call' = Call("next_message", r.read, 0, r.msg)
    /\ g' = NoCall
    /\ UNCHANGED <<heap, bctx, fds, wire, peerClosed, sent, shorts,
                   errno, pc, cl, total>>

\* -------------------------------------------------------------- compactor
bfddp_read_finish ==
    /\ pc = "idle"
    /\ "bctx" \in heap
    /\ bctx' = [bctx EXCEPT !.inbuf = bfddp_buf_pulldown(inbuf)]
    /\ call' = Call("read_finish", <<inbuf.packet, inbuf.position>>, 0, NullMsg)
    /\ g' = NoCall
    /\ UNCHANGED <<heap, fds, wire, peerClosed, sent, shorts,
                   errno, pc, cl, total>>

\* --------------------------------------------------------- specification
ConnectSteps == {"socket", "nonblock", "nodelay", "connect", "inprogress", "connected"}
AllocFails == {"none", "bctx", "inbuf", "outbuf"}

\* The caller connects a context that holds no open socket.
Connect ==
    /\ ~Connected
    /\ \E s \in ConnectSteps : bfddp_connect(s)

Next ==
    \/ \E i \in ReqLens, o \in ReqLens, f \in AllocFails : bfddp_new(i, o, f)
    \/ Connect
    \/ sock_close_call
    \/ bfddp_read_enter
    \/ bfddp_read_loop
    \/ bfddp_next_message
    \/ bfddp_read_finish
    \/ \E L \in FrameLens : PeerSend(L)
    \/ PeerClose

Spec == Init /\ [][Next]_vars

\* The caller of section 2's control flow: bfddp_read once connected or
\* after bfddp_read_finish, bfddp_next_message after a read that did not
\* fail and again after each message, bfddp_read_finish once
\* bfddp_next_message returned NULL.
CycleRead ==
    /\ (call.op = "connect" /\ call.ret = 0) \/ call.op = "read_finish"
    /\ bfddp_read_enter

CycleNextMessage ==
    /\ (call.op = "read" /\ call.ret >= 0) \/ (call.op = "next_message" /\ ~call.msg.null)
    /\ bfddp_next_message

CycleReadFinish ==
    /\ call.op = "next_message" /\ call.msg.null
    /\ bfddp_read_finish

NextCycle ==
    \/ \E i \in ReqLens, o \in ReqLens, f \in AllocFails : bfddp_new(i, o, f)
    \/ Connect
    \/ sock_close_call
    \/ CycleRead
    \/ bfddp_read_loop
    \/ CycleNextMessage
    \/ CycleReadFinish
    \/ \E L \in FrameLens : PeerSend(L)
    \/ PeerClose

SpecCycle == Init /\ [][NextCycle]_vars

\* The compactor on its own: bfddp_read_finish from every buffer of at most
\* MaxTotal cells that satisfies struct bfddp_buf's invariant.
ByteVals == {Indeterminate, 1, 2}
BufStates ==
    {[buf |-> Pack(q), total |-> Len(q), position |-> p,
      remaining |-> Len(q) - p, packet |-> k] :
        <<q, p, k>> \in {t \in (UNION {[1..n -> ByteVals] : n \in 1..MaxTotal})
                                \X (0..MaxTotal) \X (0..MaxTotal) :
                            t[3] <= t[2] /\ t[2] <= Len(t[1])}}

InitBuf ==
    /\ heap = {"bctx", "inbuf", "outbuf"}
    /\ \E b \in BufStates :
         bctx = [sock |-> 0, connecting |-> FALSE, inbuf |-> b, outbuf |-> b]
    /\ fds = {}
    /\ wire = <<>>
    /\ peerClosed = FALSE
    /\ sent = 0
    /\ shorts = 0
    /\ errno = NoErr
    /\ pc = "idle"
    /\ cl = NoClose
    /\ total = 0
    /\ call = [op |-> "none", args |-> <<>>, rep |-> FALSE, ret |-> 0, msg |-> NullMsg]
    /\ g = NoCall

NextBuf == bfddp_read_finish

SpecBuf == InitBuf /\ [][NextBuf]_vars

\* ------------------------------------------------- one connected session
\* The cycle of SpecCycle on a context that bfddp_new(100, 100) has made and
\* a bfddp_connect has connected at once.
InitSession ==
    LET r == bfddp_new_result(100, 100, "none")
    IN /\ heap = r.heap
       /\ bctx = [sock |-> 3, connecting |-> FALSE, inbuf |-> r.inbuf, outbuf |-> r.outbuf]
       /\ fds = {3}
       /\ wire = <<>>
       /\ peerClosed = FALSE
       /\ sent = 0
       /\ shorts = 0
       /\ errno = NoErr
       /\ pc = "idle"
       /\ cl = NoClose
       /\ total = 0
       /\ call = [op |-> "connect", args |-> <<>>, rep |-> FALSE, ret |-> 0, msg |-> NullMsg]
       /\ g = NoCall

NextSession ==
    \/ CycleRead
    \/ bfddp_read_loop
    \/ CycleNextMessage
    \/ CycleReadFinish
    \/ \E L \in FrameLens : PeerSend(L)
    \/ PeerClose

\* A socket read of bfddp_read delivers bytes or the end of the stream.
ReadDelivers == bfddp_read_loop /\ g'.last \in {"data", "eof"}

\* The caller goes on with its cycle, and the socket reads of a connection
\* that has bytes or its end to deliver do not fail for ever.
SpecSessionFair ==
    /\ InitSession /\ [][NextSession]_vars
    /\ WF_vars(CycleRead) /\ WF_vars(bfddp_read_loop)
    /\ WF_vars(CycleNextMessage) /\ WF_vars(CycleReadFinish)
    /\ SF_vars(ReadDelivers)

\* ------------------------------------------------ the read pump on its own
\* bfddp_read on a connected context whose inbound buffer is any buffer that
\* satisfies struct bfddp_buf's invariant, with a capacity of
\* sizeof(struct bfddp_message) to MaxSlack bytes more; cell i holds i.  The
\* peer's bytes arrive one at a time.
PumpBufStates ==
    {[buf |-> Pack([i \in 1..n |-> i]), total |-> n, position |-> p,
      remaining |-> n - p, packet |-> k] :
        <<n, p, k>> \in {t \in (SizeofMessage..(SizeofMessage + MaxSlack))
                                \X (0..(SizeofMessage + MaxSlack))
                                \X (0..(SizeofMessage + MaxSlack)) :
                            t[3] <= t[2] /\ t[2] <= t[1]}}

InitPump ==
    /\ heap = {"bctx", "inbuf", "outbuf"}
    /\ \E b \in PumpBufStates :
         bctx = [sock |-> 3, connecting |-> FALSE, inbuf |-> b, outbuf |-> b]
    /\ fds = {3}
    /\ wire = <<>>
    /\ peerClosed = FALSE
    /\ sent = 0
    /\ shorts = 0
    /\ errno = NoErr
    /\ pc = "idle"
    /\ cl = NoClose
    /\ total = 0
    /\ call = [op |-> "connect", args |-> <<>>, rep |-> FALSE, ret |-> 0, msg |-> NullMsg]
    /\ g = NoCall

PeerTrickle ==
    /\ Connected
    /\ ~peerClosed
    /\ RLen(wire) < MaxInFlight
    /\ wire' = RCat(wire, <<[v |-> PayloadByte, n |-> 1]>>)
    /\ UNCHANGED <<heap, bctx, fds, peerClosed, sent, shorts, errno, pc, cl,
                   total, call, g>>

NextPump ==
    \/ bfddp_read_enter
    \/ bfddp_read_loop
    \/ PeerTrickle
    \/ PeerClose

SpecPump == InitPump /\ [][NextPump]_vars

\* A bfddp_read call that has started goes on.
SpecPumpFair == InitPump /\ [][NextPump]_vars /\ WF_vars(bfddp_read_loop)

\* ----------------------------------------------------- connection attempts
\* bfddp_connect called again and again on one context, whether it holds a
\* socket or not, while fewer than MaxSockets descriptors are open.
ConnectAgain ==
    /\ Cardinality(fds) < MaxSockets
    /\ \E s \in ConnectSteps : bfddp_connect(s)

NextConn ==
    \/ \E i, o \in ReqLens : \E f \in AllocFails : bfddp_new(i, o, f)
    \/ ConnectAgain
    \/ sock_close_call

SpecConn == Init /\ [][NextConn]_vars

\* close(2) is not interrupted for ever: a sock_close that can leave its loop
\* at every close call does leave it.
CloseCompletes == sock_close_call /\ pc' = "idle"

SpecConnFair == Init /\ [][NextConn]_vars /\ WF_vars(CloseCompletes)

\* =================================================================== claims
\* The call of op has returned and nothing was called since.
Returned(op) == pc = "idle" /\ call.op = op

\* C2: in every state reachable through bfddp_new, bfddp_read,
\* bfddp_next_message and bfddp_read_finish, whatever the socket does, the
\* inbound buffer has 0 <= packet <= position <= total and
\* remaining = total - position.
C2_BufferInvariant ==
    /\ 0 <= inbuf.packet
    /\ inbuf.packet <= inbuf.position
    /\ inbuf.position <= inbuf.total
    /\ inbuf.remaining = inbuf.total - inbuf.position

\* C2 witness: bfddp_read has appended bytes in several socket reads and
\* bfddp_read_finish has run on the non-empty buffer.
C2_Witness ==
    /\ Returned("read_finish")
    /\ inbuf.position > 0
    /\ inbuf.position < inbuf.total
    /\ shorts > 0

\* C4: bfddp_read returns -1 with errno cleared exactly when the first
\* socket read of the call returned 0 bytes; a first read that would block
\* or was interrupted makes it return 0; a first read that fails otherwise
\* makes it return -1 with errno set.
C4_ClosedDistinguished ==
    Returned("read") =>
        /\ (call.ret = -1 /\ errno = NoErr) <=> (g.first = "eof")
        /\ g.first \in {"EAGAIN", "EINTR"} => call.ret = 0
        /\ g.first = "ECONNRESET" => (call.ret = -1 /\ errno # NoErr)

\* C4 witness: the peer has closed a connection whose connect had reported
\* EINPROGRESS, and bfddp_read has returned -1 with errno cleared.
C4_Witness ==
    /\ Returned("read")
    /\ g.first = "eof"
    /\ call.ret = -1
    /\ errno = NoErr
    /\ bctx.connecting

\* C5: a non-negative return r of bfddp_read is the number of bytes its
\* socket reads delivered; position is r above and remaining r below what
\* the entry guard left, the delivered bytes lie at the old position, and
\* with r = 0 the buffer is as the guard left it.
C5_ReturnCountsAppended ==
    (Returned("read") /\ call.ret >= 0) =>
        /\ call.ret = RLen(g.data)
        /\ inbuf.position = g.guard.position + call.ret
        /\ inbuf.remaining = g.guard.remaining - call.ret
        /\ inbuf.buf = Store(g.guard.buf, g.guard.position, g.data)
        /\ call.ret = 0 => inbuf = g.guard

\* C5 witness: one call whose socket reads delivered 10 and 20 bytes (or 20
\* and 10) before one found nothing to read.
C5_Witness ==
    /\ Returned("read")
    /\ g.nreads >= 3
    /\ g.first = "data"
    /\ call.ret = 30
    /\ g.last = "EAGAIN"

\* C6: bfddp_read returns -1 only when the call appended nothing; a close or
\* hard error met after a successful socket read of the same call makes it
\* return the positive count, and those bytes are in the buffer.
C6_FailureOnlyWhenNothingRead ==
    Returned("read") =>
        /\ call.ret = -1 => (g.data = <<>> /\ inbuf = g.guard)
        /\ g.data # <<>> =>
              /\ call.ret = RLen(g.data)
              /\ call.ret > 0
              /\ inbuf.position = g.guard.position + RLen(g.data)
              /\ RTake(RDrop(inbuf.buf, g.guard.position), RLen(g.data)) = g.data

\* C6 witness: a successful socket read followed, in the same call, by one
\* that reports the close or a hard error.
C6_Witness ==
    /\ Returned("read")
    /\ g.data # <<>>
    /\ g.last \in {"eof", "ECONNRESET"}
    /\ call.ret > 0

\* C7: no socket read is issued while the buffer is full: a call whose
\* buffer is full after the entry guard issues none, returns 0 and leaves
\* the buffer as it was, and the loop is left as soon as a read fills it.
C7_NoReadWhenFull ==
    /\ ~g.onfull
    /\ (pc = "read" /\ g.nreads > 0) => ~BFDDP_BUF_FULL(inbuf)
    /\ (Returned("read") /\ BFDDP_BUF_FULL(g.guard)) =>
          (g.nreads = 0 /\ call.ret = 0 /\ inbuf = g.guard)

\* C7 witness: bfddp_read has returned from a call on a full buffer.
C7_Witness ==
    /\ Returned("read")
    /\ BFDDP_BUF_FULL(g.guard)
    /\ g.guard.total > 0
    /\ wire # <<>>

\* C10: a successful bfddp_new gives both buffers total = max(requested,
\* 4096), position = 0, packet = 0 and remaining = total, with the context
\* and both storages allocated; a failed one returns NULL and leaves nothing
\* allocated.
C10_NewClampsAndReleases ==
    Returned("new") =>
        IF call.ret = 1
        THEN /\ heap = {"bctx", "inbuf", "outbuf"}
             /\ \A b \in {<<bctx.inbuf, call.args[1]>>, <<bctx.outbuf, call.args[2]>>} :
                   /\ b[1].total = Max(b[2], 4096)
                   /\ b[1].position = 0
                   /\ b[1].packet = 0
                   /\ b[1].remaining = b[1].total
                   /\ RLen(b[1].buf) = b[1].total
        ELSE heap = {}

\* C10 witness: bfddp_new(100, 4097) has succeeded.
C10_Witness ==
    /\ Returned("new")
    /\ call.ret = 1
    /\ call.args = <<100, 4097>>
    /\ bctx.inbuf.total = 4096
    /\ bctx.outbuf.total = 4097

\* C1: once bfddp_read has left a whole frame of declared length L in
\* [packet, position), bfddp_next_message returns the frame at offset packet
\* with its L bytes; while fewer than L bytes are there it returns NULL.
C1_FrameAtPacket ==
    Returned("next_message") =>
        IF inbuf.position - inbuf.packet < LengthBytes THEN call.msg = NullMsg
        ELSE \A L \in LengthAt(inbuf, inbuf.packet) :
                IF inbuf.position - inbuf.packet < L THEN call.msg = NullMsg
                ELSE call.msg = [null |-> FALSE, off |-> inbuf.packet, length |-> L]

\* C3: a caller that follows the cycle never keeps a full buffer: after
\* bfddp_read_finish the buffer has free space again.
C3_RoomAfterFinish ==
    Returned("read_finish") => inbuf.remaining > 0

\* C8: from a buffer that satisfies the invariant bfddp_read_finish gives
\* position' = position - packet, packet' = 0, remaining' = total -
\* position', the first position' bytes being the old bytes of [packet,
\* position) in order; with packet = 0 on entry nothing changes.
C8_Compaction ==
    [][bfddp_read_finish =>
          /\ inbuf'.position = inbuf.position - inbuf.packet
          /\ inbuf'.packet = 0
          /\ inbuf'.total = inbuf.total
          /\ inbuf'.remaining = inbuf.total - inbuf'.position
          /\ RLen(inbuf'.buf) = inbuf.total
          /\ RTake(inbuf'.buf, inbuf'.position)
                = RTake(RDrop(inbuf.buf, inbuf.packet), inbuf.position - inbuf.packet)
          /\ inbuf.packet = 0 => inbuf' = inbuf]_vars

\* C8 witness: bfddp_read_finish has run on a buffer with consumed bytes
\* before packet and unconsumed bytes after it.
C8_Witness ==
    /\ Returned("read_finish")
    /\ call.args[1] > 0
    /\ call.args[2] > call.args[1] + 1
    /\ inbuf.position = call.args[2] - call.args[1]
    /\ inbuf.packet = 0

\* C9: a bfddp_read_finish that directly follows a bfddp_read_finish leaves
\* position, remaining, packet and the contents as the first one left them.
C9_CompactionIdempotent ==
    [][(call.op = "read_finish" /\ bfddp_read_finish) => inbuf' = inbuf]_vars

\* C9 witness: the second of two bfddp_read_finish calls in a row has
\* returned on a buffer that holds bytes and has free space.
C9_Witness ==
    /\ Returned("read_finish")
    /\ call.rep
    /\ inbuf.position > 1
    /\ inbuf.position < inbuf.total

\* C11: a bfddp_connect that fails after socket() succeeded (O_NONBLOCK,
\* TCP_NODELAY, or connect with an error other than EINPROGRESS) goes through
\* sock_close and returns -1 with the descriptor closed, errno that of the
\* failing step and bctx->sock, bctx->connecting as they were; EINPROGRESS
\* is no failure: the call returns 0 with connecting set.
C11_ConnectFailureCloses ==
    [][ /\ \A s \in {"nonblock", "nodelay", "connect"} :
              bfddp_connect(s) => pc' = "close" /\ cl'.sock \in fds' /\ bctx' = bctx
        /\ (sock_close_call /\ pc' = "idle")
              => /\ cl.sock \notin fds'
                 /\ errno' = StepErrno(cl.from)
                 /\ call'.op = "connect" /\ call'.ret = -1
                 /\ bctx' = bctx
        /\ bfddp_connect("inprogress")
              => /\ pc' = "idle"
                 /\ call'.ret = 0
                 /\ bctx'.connecting /\ bctx'.sock \in fds' ]_vars

\* A connect() refused on a context that already holds a socket: the new
\* descriptor is gone after an interrupted and then failing close, errno is
\* connect's and the stored socket is still open.
C11_Witness ==
    /\ Returned("connect") /\ call.ret = -1
    /\ cl.from = "connect" /\ cl.intr /\ cl.last = "EIO"
    /\ errno = "ECONNREFUSED"
    /\ cl.sock \notin fds
    /\ Connected

\* C17: sock_close calls close again exactly when the call failed with
\* EINTR, leaves its loop on success and on any other failure, returns when
\* close is not interrupted for ever, and returns with errno as it was on
\* entry.
C17_CloseLoop ==
    /\ [][ /\ (pc = "idle" /\ pc' = "close") => cl'.errnoc = errno'
           /\ sock_close_call
                 => /\ (pc' = "close") <=> (cl'.last = "EINTR")
                    /\ pc' = "idle" => errno' = cl.errnoc ]_vars
    /\ (pc = "close") ~> (pc = "idle")

\* sock_close returned after an interrupted close and a successful one, with
\* errno still that of the failed fcntl.
C17_Witness ==
    /\ Returned("connect")
    /\ cl.from = "nonblock" /\ cl.intr /\ cl.last = "ok"
    /\ errno = "EINVAL"

\* C19: between calls, every descriptor the library opened and has not closed
\* is the one stored in bctx->sock.
C19_OnlyStoredSocketOpen ==
    pc = "idle" => fds \subseteq {bctx.sock}

\* C12: bfddp_next_message leaves both buffers of the context (cursors,
\* capacity, contents) as they were, and a call that directly follows
\* another bfddp_next_message returns what that one returned.
C12_ReadOnlySameResult ==
    [][bfddp_next_message
         => /\ bctx' = bctx
            /\ call.op = "next_message" => call'.msg = call.msg]_vars

\* C13: the drain loop ends, with a NULL from bfddp_next_message, only when
\* no whole frame is left at packet; it has then returned every whole frame
\* bfddp_read left, the trailing part of a frame staying in the buffer.
C13_DrainReturnsWholeFrames ==
    (Returned("next_message") /\ call.msg.null)
        => \/ inbuf.position - inbuf.packet < LengthBytes
           \/ \A L \in LengthAt(inbuf, inbuf.packet) : inbuf.position - inbuf.packet < L

\* C18: the msg->length bfddp_next_message reads lies inside
\* [packet, position), the bytes received and not yet consumed.
C18_HeaderInsideReceived ==
    (Returned("next_message") /\ call.args # <<>>)
        => /\ inbuf.packet <= call.args[1]
           /\ call.args[1] + LengthBytes <= inbuf.position

\* C14: when the caller calls bfddp_read again and again, every state in
\* which the peer has closed is followed by a bfddp_read that returns -1 with
\* errno 0.
C14_ClosedIsReported ==
    ([]<>(pc = "read"))
        => [](peerClosed => <>(Returned("read") /\ call.ret = -1 /\ errno = NoErr))

\* C15: bfddp_read compacts before its first socket read when it is entered
\* with remaining <= sizeof(struct bfddp_message), whatever the caller did
\* before: a call that has issued a socket read either was entered with more
\* free space than one header, or started its reads with packet = 0 and
\* the bytes before packet reclaimed.
C15_GuardBeforeFirstRead ==
    g.nreads > 0
        => \/ g.entry.remaining > SizeofMessage
           \/ /\ g.guard.packet = 0
              /\ g.guard.position = g.entry.position - g.entry.packet
              /\ g.guard.remaining = g.entry.remaining + g.entry.packet

\* bfddp_read entered with exactly one header of free space and consumed
\* bytes in front has read from the socket into the reclaimed space.
C15_Witness ==
    /\ Returned("read")
    /\ g.nreads > 0
    /\ g.entry.remaining = SizeofMessage
    /\ g.entry.packet > 0
    /\ g.guard.remaining > SizeofMessage
    /\ call.ret > SizeofMessage

\* C16: a bfddp_read call issues at most one socket read more than the
\* entry guard left free bytes, and it returns.
C16_ReadTerminates ==
    /\ [](g.nreads <= g.guard.remaining + 1)
    /\ (pc = "read") ~> (pc = "idle")

\* A call that took the free bytes one by one: as many socket reads as the
\* guard left free bytes, the last one filling the buffer.
C16_Witness ==
    /\ Returned("read")
    /\ g.guard.remaining >= 2
    /\ g.nreads = g.guard.remaining
    /\ call.ret = g.guard.remaining
    /\ BFDDP_BUF_FULL(inbuf)

====
